---------------------------- MODULE Spec2Model ----------------------------
(***************************************************************************)
(* A model of app/main.py: the loose-object store (hash_object,            *)
(* read_object, cat-file), tree and commit encoding (write_tree_recursive, *)
(* create_commit) and pack ingestion (write_packfile).                     *)
(*                                                                         *)
(* Byte strings are sequences of integers 0..255.  Python's str values     *)
(* that the program encodes or decodes are kept as their ASCII bytes.      *)
(***************************************************************************)
EXTENDS Integers, Sequences, FiniteSets, TLC

VARIABLES
    objects,    \* .git/objects: hex sha |-> bytes of the loose-object file
    out,        \* what the last command printed / returned, and how it ended
    hist,       \* the commands run so far, newest last (history)
    clock,      \* time.time(), in whole seconds
    pk,         \* write_packfile's locals: position, objects, processed_objects
    wr,         \* concurrent writers: each one's position inside hash_object
    seen,       \* what the concurrent reader found at the path it last read
    refs        \* the repository outside .git/objects: HEAD and the refs/ files

vars == <<objects, out, hist, clock, pk, wr, seen, refs>>

(***************************************************************************)
(* Bounds of the model.                                                    *)
(***************************************************************************)
MaxOps == 3         \* commands run in one behaviour of the store
MaxPackObjs == 3    \* records in one pack
MaxTicks == 2       \* seconds the clock advances
MaxCommits == 2     \* commands run in one behaviour of commit-tree
MaxTrees == 2       \* commands run in one behaviour of write-tree
MaxInstrs == 2      \* instructions in one generated delta
MaxWrites == 2      \* hash_object calls of one concurrent writer
NumWriters == 2     \* concurrent writers
MaxPkts == 3        \* pkt-lines after the first in one fetch response
MaxLife == 3        \* commands run in one life of a repository

(***************************************************************************)
(* Bytes and Python's slicing.                                             *)
(***************************************************************************)
NUL == <<0>>
SP  == <<32>>
LF  == <<10>>

Min(a, b) == IF a < b THEN a ELSE b

\* s[a:b] for 0 <= a, b: indices clamped to the string, empty when a >= b.
Slice(s, a, b) ==
    LET lo == Min(a, Len(s))
        hi == Min(b, Len(s))
    IN  IF lo >= hi THEN <<>> ELSE SubSeq(s, lo + 1, hi)

\* s[a:]
From(s, a) == Slice(s, a, Len(s))

\* bytes.index(b): 0-based position of the first b at or after position
\* start (0-based), or -1 when there is none (Python raises ValueError).
IndexFrom(s, b, start) ==
    LET hits == { i \in (start + 1)..Len(s) : s[i] = b }
    IN  IF hits = {} THEN -1 ELSE (CHOOSE i \in hits : \A j \in hits : i <= j) - 1

Index(s, b) == IndexFrom(s, b, 0)

\* str(n) for n >= 0, as ASCII digits.
RECURSIVE Dec(_)
Dec(n) == IF n < 10 THEN <<48 + n>> ELSE Dec(n \div 10) \o <<48 + (n % 10)>>

\* The kind names, as the bytes f"{obj_type}".encode() yields.
Blob   == <<98, 108, 111, 98>>
Tree   == <<116, 114, 101, 101>>
Commit == <<99, 111, 109, 109, 105, 116>>
Tag    == <<116, 97, 103>>

(***************************************************************************)
(* hashlib.sha1.  The model's digest is DigestBytes bytes wide instead of  *)
(* 20; it is computed from every byte of its input, and hexdigest() and    *)
(* bytes.fromhex() are computed digit by digit.                            *)
(***************************************************************************)
DigestBytes == 2

RECURSIVE Pow(_, _)
Pow(b, e) == IF e = 0 THEN 1 ELSE b * Pow(b, e - 1)

DigestMod == Pow(256, DigestBytes) - 15

\* 131^e modulo 8191, by halving the exponent
RECURSIVE PowMod(_)
PowMod(e) ==
    IF e = 0 THEN 1
    ELSE LET h == PowMod(e \div 2)
         IN  IF e % 2 = 0 THEN (h * h) % 8191
             ELSE (((h * h) % 8191) * 131) % 8191

\* the digest's sum over s[lo..hi]: every byte weighted by its position
RECURSIVE DigestSum(_, _, _)
DigestSum(s, lo, hi) ==
    IF lo > hi THEN 0
    ELSE IF lo = hi THEN ((s[lo] + 1) * PowMod(lo)) % DigestMod
    ELSE (DigestSum(s, lo, (lo + hi) \div 2)
          + DigestSum(s, ((lo + hi) \div 2) + 1, hi)) % DigestMod

\* hashlib.sha1(s).digest(), as a number below 256^DigestBytes
Digest(s) == (7 + Len(s) + DigestSum(s, 1, Len(s))) % DigestMod

HexDigit(d) == IF d < 10 THEN 48 + d ELSE 87 + d

HexVal(c) == IF c >= 97 THEN c - 87 ELSE c - 48

\* the n raw bytes of v, big-endian
RECURSIVE RawBytes(_, _)
RawBytes(v, n) ==
    IF n = 0 THEN <<>> ELSE RawBytes(v \div 256, n - 1) \o <<v % 256>>

\* bytes.hex(): two lowercase hex digits per byte
RECURSIVE Hex(_)
Hex(raw) ==
    IF raw = <<>> THEN <<>>
    ELSE <<HexDigit(Head(raw) \div 16), HexDigit(Head(raw) % 16)>> \o Hex(Tail(raw))

\* bytes.fromhex(): one byte per two hex digits
RECURSIVE FromHex(_)
FromHex(h) ==
    IF Len(h) < 2 THEN <<>>
    ELSE <<(HexVal(h[1]) * 16) + HexVal(h[2])>> \o FromHex(From(h, 2))

\* hashlib.sha1(s).hexdigest()
Sha1Hex(s) == Hex(RawBytes(Digest(s), DigestBytes))

(***************************************************************************)
(* zlib.  A stream is a header byte, the length of the data (two bytes),   *)
(* the data as one stored block, and a checksum of the data: like a real   *)
(* stream it is never empty, it tells where it ends, and a truncated or    *)
(* damaged stream does not decompress.                                     *)
(***************************************************************************)
RECURSIVE AdlerSum(_, _, _)
AdlerSum(s, lo, hi) ==
    IF lo > hi THEN 0
    ELSE IF lo = hi THEN s[lo]
    ELSE (AdlerSum(s, lo, (lo + hi) \div 2) + AdlerSum(s, ((lo + hi) \div 2) + 1, hi)) % 251

Adler(s) == (1 + AdlerSum(s, 1, Len(s))) % 251

\* zlib.compress(s)
Compress(s) == <<120, Len(s) \div 256, Len(s) % 256>> \o s \o <<Adler(s)>>

\* Does z start with a complete stream?
StreamOk(z) ==
    /\ Len(z) >= 4
    /\ z[1] = 120
    /\ Len(z) >= (z[2] * 256) + z[3] + 4
    /\ z[(z[2] * 256) + z[3] + 4] = Adler(SubSeq(z, 4, (z[2] * 256) + z[3] + 3))

StreamLen(z) == (z[2] * 256) + z[3] + 4

\* zlib.decompress(z): the data, when z is a complete stream (zlib.error if not)
Decompress(z) == SubSeq(z, 4, StreamLen(z) - 1)

(***************************************************************************)
(* The object store.                                                       *)
(***************************************************************************)
\* f"{obj_type} {len(data)}\x00".encode() + data
Envelope(obj_type, data) == obj_type \o SP \o Dec(Len(data)) \o NUL \o data

\* open(path, "wb"): the file exists and is empty
OpenWb(store, sha) ==
    [h \in (DOMAIN store) \cup {sha} |-> IF h = sha THEN <<>> ELSE store[h]]

\* f.write(bytes) on a file opened "wb", and the close that flushes it: the
\* bytes go to the start of the file, over what another writer may have put
\* there since the open
WriteClose(store, sha, bytes) ==
    [h \in (DOMAIN store) \cup {sha} |->
        IF h = sha THEN bytes \o From(store[h], Len(bytes)) ELSE store[h]]

\* hash_object with open(path, "ab") in place of "wb"
HashObjectStoreAppend(store, data, obj_type) ==
    LET env == Envelope(obj_type, data)
        sha == Sha1Hex(env)
    IN  [h \in (DOMAIN store) \cup {sha} |->
            IF h # sha THEN store[h]
            ELSE IF h \in DOMAIN store THEN store[h] \o Compress(env)
            ELSE Compress(env)]

\* hash_object(data, obj_type): the store afterwards.  The path is
\* .git/objects/<sha[:2]>/<sha[2:]>; the store is keyed by sha.
HashObjectStore(store, data, obj_type) ==
    LET env == Envelope(obj_type, data)
        sha == Sha1Hex(env)
    IN  WriteClose(OpenWb(store, sha), sha, Compress(env))

\* hash_object(data, obj_type): the sha it returns
HashObjectSha(data, obj_type) == Sha1Hex(Envelope(obj_type, data))

\* header.split(b' ')[0]
BeforeSpace(s) == IF Index(s, 32) < 0 THEN s ELSE Slice(s, 0, Index(s, 32))

\* the position of the last b in s, or -1
RECURSIVE LastIndex(_, _, _)
LastIndex(s, b, i) ==
    IF i = 0 THEN -1 ELSE IF s[i] = b THEN i - 1 ELSE LastIndex(s, b, i - 1)

\* read_object with data.rindex(b'\x00') in place of data.index(b'\x00')
ReadObjectRindex(store, sha) ==
    IF sha \notin DOMAIN store
    THEN [err |-> "FileNotFoundError", kind |-> <<>>, content |-> <<>>]
    ELSE IF ~StreamOk(store[sha])
    THEN [err |-> "zlib.error", kind |-> <<>>, content |-> <<>>]
    ELSE LET data == Decompress(store[sha])
             null_pos == LastIndex(data, 0, Len(data))
         IN  IF null_pos < 0
             THEN [err |-> "ValueError", kind |-> <<>>, content |-> <<>>]
             ELSE [err |-> "ok",
                   kind |-> BeforeSpace(Slice(data, 0, null_pos)),
                   content |-> From(data, null_pos + 1)]

\* read_object(path, sha): [err, kind, content]
ReadObject(store, sha) ==
    IF sha \notin DOMAIN store
    THEN [err |-> "FileNotFoundError", kind |-> <<>>, content |-> <<>>]
    ELSE IF ~StreamOk(store[sha])
    THEN [err |-> "zlib.error", kind |-> <<>>, content |-> <<>>]
    ELSE LET data == Decompress(store[sha])
             null_pos == Index(data, 0)
         IN  IF null_pos < 0
             THEN [err |-> "ValueError", kind |-> <<>>, content |-> <<>>]
             ELSE [err |-> "ok",
                   kind |-> BeforeSpace(Slice(data, 0, null_pos)),
                   content |-> From(data, null_pos + 1)]

(***************************************************************************)
(* cat-file.                                                               *)
(***************************************************************************)
\* data.split(b"\x00", 2)[-1]: at most two splits, the last part
SplitNul2Last(data) ==
    LET i1 == Index(data, 0)
        i2 == IF i1 < 0 THEN -1 ELSE IndexFrom(data, 0, i1 + 1)
    IN  IF i1 < 0 THEN data
        ELSE IF i2 < 0 THEN From(data, i1 + 1)
        ELSE From(data, i2 + 1)

\* data.split(b"\x00", 2)[0]
SplitNulFirst(data) == IF Index(data, 0) < 0 THEN data ELSE Slice(data, 0, Index(data, 0))

\* the number of b in s
RECURSIVE Count(_, _)
Count(s, b) ==
    IF s = <<>> THEN 0 ELSE (IF Head(s) = b THEN 1 ELSE 0) + Count(Tail(s), b)

\* bytes.decode(): bytes that occur in no UTF-8 text make it raise.  The
\* model's strings hold no other byte above 127.
Utf8Ok(s) == \A i \in 1..Len(s) : s[i] < 128

\* main, command == "cat-file": [err, bytes printed]
CatFile(store, sub_command, sha) ==
    IF sha \notin DOMAIN store THEN [err |-> "FileNotFoundError", bytes |-> <<>>]
    ELSE IF ~StreamOk(store[sha]) THEN [err |-> "zlib.error", bytes |-> <<>>]
    ELSE LET data == Decompress(store[sha])
             head == SplitNulFirst(data)
             _content == SplitNul2Last(data)
         IN  IF ~Utf8Ok(head) THEN [err |-> "UnicodeDecodeError", bytes |-> <<>>]
             ELSE IF Count(head, 32) # 1 THEN [err |-> "ValueError", bytes |-> <<>>]
             ELSE IF ~Utf8Ok(_content) THEN [err |-> "UnicodeDecodeError", bytes |-> <<>>]
             ELSE IF sub_command = "-p" THEN [err |-> "ok", bytes |-> _content]
             ELSE [err |-> "ok", bytes |-> <<>>]

(***************************************************************************)
(* commit-tree.                                                            *)
(***************************************************************************)
\* Python's None, where a byte string may stand too
None == <<-1>>

\* f"{x}" for a str or None
Fmt(x) == IF x = None THEN <<78, 111, 110, 101>> ELSE x

author == <<68, 117, 121, 32, 72, 117, 121, 110, 104, 32, 60, 118, 110, 100,
            101, 101, 46, 104, 117, 121, 110, 104, 64, 103, 109, 97, 105, 108,
            46, 99, 111, 109, 62>>
committer == author
timezone == <<45, 48, 55, 48, 48>>

\* create_commit: commit_data, with timestamp = int(time.time())
CommitData(tree_sha, parent_sha, message, timestamp) ==
    <<116, 114, 101, 101, 32>> \o Fmt(tree_sha) \o LF
    \o <<112, 97, 114, 101, 110, 116, 32>> \o Fmt(parent_sha) \o LF
    \o <<97, 117, 116, 104, 111, 114, 32>> \o author \o SP \o Dec(timestamp) \o SP \o timezone \o LF
    \o <<99, 111, 109, 109, 105, 116, 116, 101, 114, 32>> \o committer \o SP \o Dec(timestamp)
       \o SP \o timezone \o LF
    \o LF
    \o message \o LF

\* main, command == "commit-tree": the argument loop over sys.argv[3:], given
\* as <<flag, value>> pairs.  [err, parent_sha, message]
RECURSIVE ParseCommitArgs(_, _, _)
ParseCommitArgs(args, parent_sha, message) ==
    IF args = <<>> THEN [err |-> "ok", parent_sha |-> parent_sha, message |-> message]
    ELSE IF Head(args)[1] = "-p" THEN ParseCommitArgs(Tail(args), Head(args)[2], message)
    ELSE IF Head(args)[1] = "-m" THEN ParseCommitArgs(Tail(args), parent_sha, Head(args)[2])
    ELSE [err |-> "RuntimeError", parent_sha |-> parent_sha, message |-> message]

(***************************************************************************)
(* write-tree.  A directory is a set of entries [name, type, exec, data,   *)
(* children]: type is "file", "dir" or "other" (neither os.path.isfile nor *)
(* os.path.isdir), exec says whether st_mode has an execute bit, data is a *)
(* file's content and children a directory's entries.                      *)
(***************************************************************************)
\* a < b for strings, compared element by element as Python compares
RECURSIVE LexLess(_, _)
LexLess(a, b) ==
    IF b = <<>> THEN FALSE
    ELSE IF a = <<>> THEN TRUE
    ELSE IF Head(a) # Head(b) THEN Head(a) < Head(b)
    ELSE LexLess(Tail(a), Tail(b))

\* name put into a list that is sorted already
RECURSIVE Insert(_, _)
Insert(name, sorted) ==
    IF sorted = <<>> THEN <<name>>
    ELSE IF LexLess(name, Head(sorted)) THEN <<name>> \o sorted
    ELSE <<Head(sorted)>> \o Insert(name, Tail(sorted))

\* sorted(names)
RECURSIVE Sorted(_)
Sorted(names) == IF names = <<>> THEN <<>> ELSE Insert(Head(names), Sorted(Tail(names)))

\* the names of a set of entries, in some fixed order
RECURSIVE SomeOrder(_)
SomeOrder(dir) ==
    IF dir = {} THEN <<>>
    ELSE LET e == CHOOSE x \in dir : TRUE IN <<e.name>> \o SomeOrder(dir \ {e})

RECURSIVE Reverse(_)
Reverse(q) == IF q = <<>> THEN <<>> ELSE Reverse(Tail(q)) \o <<Head(q)>>

\* os.listdir(directory): the names, in an order the file system chooses
ListDir(dir, order) == IF order = "rev" THEN Reverse(SomeOrder(dir)) ELSE SomeOrder(dir)

\* create_tree_entry(mode, name, sha)
create_tree_entry(mode, name, sha) == mode \o SP \o name \o NUL \o FromHex(sha)

DotGit == <<46, 103, 105, 116>>

\* write_tree_recursive(directory): [sha, store, content]; TreeEntries is its
\* loop over the sorted names, from the store the entries before left
RECURSIVE write_tree_recursive(_, _, _), TreeEntries(_, _, _, _)
TreeEntries(dir, names, store, order) ==
    IF names = <<>> THEN [content |-> <<>>, store |-> store]
    ELSE LET name == Head(names)
             e == CHOOSE x \in dir : x.name = name
             sub == write_tree_recursive(e.children, store, order)
             first ==
                 IF name = DotGit THEN [content |-> <<>>, store |-> store]
                 ELSE IF e.type = "file"
                 THEN [content |->
                           create_tree_entry(
                               IF e.exec THEN <<49, 48, 48, 55, 53, 53>>
                               ELSE <<49, 48, 48, 54, 52, 52>>,
                               name, HashObjectSha(e.data, Blob)),
                       store |-> HashObjectStore(store, e.data, Blob)]
                 ELSE IF e.type = "dir"
                 THEN [content |-> create_tree_entry(<<52, 48, 48, 48, 48>>, name, sub.sha),
                       store |-> sub.store]
                 ELSE [content |-> <<>>, store |-> store]
             rest == TreeEntries(dir, Tail(names), first.store, order)
         IN  [content |-> first.content \o rest.content, store |-> rest.store]

write_tree_recursive(dir, store, order) ==
    LET r == TreeEntries(dir, Sorted(ListDir(dir, order)), store, order)
    IN  [sha |-> HashObjectSha(r.content, Tree),
         store |-> HashObjectStore(r.store, r.content, Tree),
         content |-> r.content]

(***************************************************************************)
(* The commands of the store, one action each.                             *)
(***************************************************************************)
EmptyStore == [h \in {} |-> <<>>]

\* a sha that names no object
MissingSha == <<48, 48, 48, 48>>

\* what the store's commands are given
Payloads == { <<>>, <<104, 105>>, <<97, 0, 98>>, <<98, 195, 40>> }
Kinds == { Blob, Tree, Commit }
Messages == { <<109>>, <<>> }
CommitArgs ==
    { <<>> }
    \cup { << <<"-m", m>> >> : m \in Messages }
    \cup { << <<"-p", MissingSha>>, <<"-m", <<109>> >> >>,
           << <<"-m", <<109>> >>, <<"-p", MissingSha>> >>,
           << <<"-p", MissingSha>>, <<"-p", Sha1Hex(<<>>)>>, <<"-m", <<109>> >> >>,
           << <<"-x", <<>> >> >> }

\* one entry of the history
Entry(op, a, b, c, ts, sha, res, err) ==
    [op |-> op, a |-> a, b |-> b, c |-> c, ts |-> ts, sha |-> sha, res |-> res,
     err |-> err, before |-> objects, refs |-> refs]

\* the first eight bytes of a pack: "PACK" and version 2
PackMagic == <<80, 65, 67, 75>>
GoodHead == [magic |-> PackMagic, version |-> 2]

PkIdle ==
    [pc |-> "idle", head |-> GoodHead, pack |-> <<>>, before |-> EmptyStore, objs |-> <<>>,
     idx |-> 1, processed |-> {}, made |-> <<>>, err |-> "ok"]

\* the paths of .git/HEAD and of the ref main writes by default
HeadPath == <<72, 69, 65, 68>>
RefsHeadsMain == <<114, 101, 102, 115, 47, 104, 101, 97, 100, 115, 47, 109, 97, 105, 110>>

\* "ref: "
RefPrefix == <<114, 101, 102, 58, 32>>

\* refs is [wd, dir, files]: is there a working directory, is there a .git in
\* it, and HEAD and the files under .git/refs by their path under .git
NoRepo == [wd |-> FALSE, dir |-> FALSE, files |-> [p \in {} |-> <<>>]]

\* a working directory without .git
EmptyDir == [wd |-> TRUE, dir |-> FALSE, files |-> NoRepo.files]

\* with open(path, "w") as f: f.write(content)
WriteFile(files, path, content) ==
    [p \in (DOMAIN files) \cup {path} |-> IF p = path THEN content ELSE files[p]]

\* os.makedirs followed by a write of HEAD that names the branch "dev"
MakeDirsSetHead(r) ==
    [r EXCEPT !.dir = TRUE,
              !.files = WriteFile(@, HeadPath, RefPrefix \o <<100, 101, 118>> \o LF)]

\* os.makedirs(f".git/objects/{sha[:2]}", exist_ok=True): there is a .git now
MakeDirs(r) == [r EXCEPT !.dir = TRUE]

\* .git as "init" leaves it
AfterInit ==
    [wd |-> TRUE, dir |-> TRUE,
     files |-> WriteFile(NoRepo.files, HeadPath, RefPrefix \o RefsHeadsMain \o LF)]

InitRest ==
    /\ pk = PkIdle
    /\ wr = <<>>
    /\ seen = "none"
    /\ refs = AfterInit

StoreInit ==
    /\ objects = EmptyStore
    /\ out = [err |-> "ok", bytes |-> <<>>]
    /\ hist = <<>>
    /\ clock = 0
    /\ InitRest

\* hash_object(data, obj_type); "hash-object -w" calls it with "blob" and prints
\* the sha
HashObject(data, obj_type) ==
    /\ Len(hist) < MaxOps
    /\ objects' = HashObjectStore(objects, data, obj_type)
    /\ out' = [err |-> "ok", bytes |-> HashObjectSha(data, obj_type)]
    /\ hist' = Append(hist, Entry("hash_object", data, obj_type, <<>>, clock,
                                  HashObjectSha(data, obj_type), <<>>, "ok"))
    /\ refs' = MakeDirs(refs)
    /\ UNCHANGED <<clock, pk, wr, seen>>

\* read_object(".", sha)
ReadObjectCall(sha) ==
    /\ Len(hist) < MaxOps
    /\ LET r == ReadObject(objects, sha)
       IN  /\ out' = [err |-> r.err, bytes |-> r.content]
           /\ hist' = Append(hist, Entry("read_object", <<>>, r.kind, <<>>, clock,
                                         sha, r.content, r.err))
    /\ UNCHANGED <<objects, clock, pk, wr, seen, refs>>

\* cat-file <sub_command> <sha>
CatFileCmd(sub_command, sha) ==
    /\ Len(hist) < MaxOps
    /\ LET r == CatFile(objects, sub_command, sha)
       IN  /\ out' = r
           /\ hist' = Append(hist, Entry("cat-file", <<>>, <<>>, sub_command, clock,
                                         sha, r.bytes, r.err))
    /\ UNCHANGED <<objects, clock, pk, wr, seen, refs>>

\* commit-tree <tree_sha> [-p <parent>] [-m <message>]: the argument loop, then
\* create_commit, which reads the clock, then print
CommitTreeCmd(tree_sha, args) ==
    /\ Len(hist) < MaxCommits
    /\ LET p == ParseCommitArgs(args, None, <<>>)
           commit_data == CommitData(tree_sha, p.parent_sha, p.message, clock)
       IN  IF p.err # "ok"
           THEN /\ out' = [err |-> p.err, bytes |-> <<>>]
                /\ hist' = Append(hist, Entry("commit-tree", tree_sha, args, <<>>, clock,
                                              <<>>, <<>>, p.err))
                /\ UNCHANGED <<objects, refs>>
           ELSE /\ objects' = HashObjectStore(objects, commit_data, Commit)
                /\ refs' = MakeDirs(refs)
                /\ out' = [err |-> "ok", bytes |-> HashObjectSha(commit_data, Commit)]
                /\ hist' = Append(hist, Entry("commit-tree", tree_sha, args, <<>>, clock,
                                              HashObjectSha(commit_data, Commit),
                                              commit_data, "ok"))
    /\ UNCHANGED <<clock, pk, wr, seen>>

\* a second passes
Tick ==
    /\ clock < MaxTicks
    /\ clock' = clock + 1
    /\ UNCHANGED <<objects, out, hist, pk, wr, seen, refs>>

ShaArgs == (DOMAIN objects) \cup {MissingSha}

StoreNext ==
    \/ \E data \in Payloads, k \in Kinds : HashObject(data, k)
    \/ \E sha \in ShaArgs : ReadObjectCall(sha)
    \/ \E sha \in ShaArgs, sub \in {"-p", "-t"} : CatFileCmd(sub, sha)

Spec == StoreInit /\ [][StoreNext]_vars

CommitNext ==
    \/ \E t \in ShaArgs, args \in CommitArgs : CommitTreeCmd(t, args)
    \/ Tick

SpecCommit == StoreInit /\ [][CommitNext]_vars

(***************************************************************************)
(* write-tree, over the working directories it may be run in.              *)
(***************************************************************************)
File(name, exec, data) ==
    [name |-> name, type |-> "file", exec |-> exec, data |-> data, children |-> {}]
Dir(name, children) ==
    [name |-> name, type |-> "dir", exec |-> TRUE, data |-> <<>>, children |-> children]
Other(name) ==
    [name |-> name, type |-> "other", exec |-> FALSE, data |-> <<>>, children |-> {}]

\* directory "a" holding files "b.c" and "b", file "a.b", executable "a0", a
\* socket "s", and .git
EntryPool ==
    { Dir(<<97>>, { File(<<98, 46, 99>>, FALSE, <<120>>), File(<<98>>, FALSE, <<>>) }),
      File(<<97, 46, 98>>, FALSE, <<121>>),
      File(<<97, 48>>, TRUE, <<120>>),
      Other(<<115>>),
      Dir(DotGit, { File(<<72>>, FALSE, <<>>) }) }

WorkDirs == SUBSET EntryPool

\* write-tree: write_tree_recursive("."), then print
WriteTreeCmd(dir, order) ==
    /\ Len(hist) < MaxTrees
    /\ LET r == write_tree_recursive(dir, objects, order)
       IN  /\ objects' = r.store
           /\ out' = [err |-> "ok", bytes |-> r.sha]
           /\ hist' = Append(hist, Entry("write-tree", dir, <<>>, order, clock,
                                         r.sha, r.content, "ok"))
    /\ refs' = MakeDirs(refs)
    /\ UNCHANGED <<clock, pk, wr, seen>>

TreeNext == \E dir \in WorkDirs, order \in {"fwd", "rev"} : WriteTreeCmd(dir, order)

SpecTree == StoreInit /\ [][TreeNext]_vars

(***************************************************************************)
(* write_packfile: the readers of variable-length numbers.                 *)
(***************************************************************************)
\* the continuation bytes of a size: the loop "while bs[i - 1] & 0b10000000",
\* entered with i bytes read, size so far and 2^shift.  [err, size, i]
RECURSIVE SizeLoop(_, _, _, _)
SizeLoop(bs, i, size, mul) ==
    IF bs[i] < 128 THEN [err |-> "ok", size |-> size, i |-> i]
    ELSE IF i >= Len(bs) THEN [err |-> "IndexError", size |-> size, i |-> i]
    ELSE SizeLoop(bs, i + 1, size + ((bs[i + 1] % 128) * mul), mul * 128)

\* next_size_type(bs): [err, ty, size, rest]
type_map(ty) ==
    CASE ty = 1 -> Commit
      [] ty = 2 -> Tree
      [] ty = 3 -> Blob
      [] ty = 4 -> Tag
      [] ty = 6 -> <<111, 102, 115, 95, 100, 101, 108, 116, 97>>
      [] ty = 7 -> <<114, 101, 102, 95, 100, 101, 108, 116, 97>>
      [] OTHER -> <<117, 110, 107, 110, 111, 119, 110>>

RefDelta == type_map(7)

next_size_type(bs) ==
    IF bs = <<>> THEN [err |-> "IndexError", ty |-> <<>>, size |-> 0, rest |-> <<>>]
    ELSE LET r == SizeLoop(bs, 1, bs[1] % 16, 16)
         IN  [err |-> r.err, ty |-> type_map((bs[1] \div 16) % 8), size |-> r.size,
              rest |-> From(bs, r.i)]

\* next_size that reads one byte and never the continuation bytes
next_size_one_byte(bs) ==
    IF bs = <<>> THEN [err |-> "IndexError", size |-> 0, rest |-> <<>>]
    ELSE [err |-> "ok", size |-> bs[1] % 128, rest |-> From(bs, 1)]

\* next_size(bs): [err, size, rest]
next_size(bs) ==
    IF bs = <<>> THEN [err |-> "IndexError", size |-> 0, rest |-> <<>>]
    ELSE LET r == SizeLoop(bs, 1, bs[1] % 128, 128)
         IN  [err |-> r.err, size |-> r.size, rest |-> From(bs, r.i)]

(***************************************************************************)
(* write_packfile: the first pass.                                         *)
(***************************************************************************)
\* zlib.decompressobj(): decompress(z) and unused_data.  A stream that stops
\* early yields the data it holds so far and no error.  [err, data, unused]
DecompressObj(z) ==
    IF z = <<>> THEN [err |-> "ok", data |-> <<>>, unused |-> <<>>]
    ELSE IF z[1] # 120 THEN [err |-> "zlib.error", data |-> <<>>, unused |-> <<>>]
    ELSE IF Len(z) < 3 THEN [err |-> "ok", data |-> <<>>, unused |-> <<>>]
    ELSE IF Len(z) < StreamLen(z)
    THEN [err |-> "ok", data |-> Slice(z, 3, StreamLen(z) - 1), unused |-> <<>>]
    ELSE IF ~StreamOk(z) THEN [err |-> "zlib.error", data |-> <<>>, unused |-> <<>>]
    ELSE [err |-> "ok", data |-> Decompress(z), unused |-> From(z, StreamLen(z))]

\* struct.unpack("!I", b)[0] for four bytes
Unpack32(b) == (((((b[1] * 256) + b[2]) * 256) + b[3]) * 256) + b[4]

\* the loop "for _ in range(n_objects)": [err, objects], from what the
\* iterations before left of remaining_data
RECURSIVE FirstPass(_, _)
FirstPass(remaining_data, n) ==
    IF n = 0 THEN [err |-> "ok", objects |-> <<>>]
    ELSE LET h == next_size_type(remaining_data)
             direct == DecompressObj(h.rest)
             base_sha == Hex(Slice(h.rest, 0, DigestBytes))
             delta == DecompressObj(From(h.rest, DigestBytes))
             d == IF h.ty = RefDelta THEN delta ELSE direct
             more == FirstPass(d.unused, n - 1)
             skipped == FirstPass(h.rest, n - 1)
         IN  IF h.err # "ok" THEN [err |-> h.err, objects |-> <<>>]
             ELSE IF h.ty \notin {Commit, Tree, Blob, Tag, RefDelta} THEN skipped
             ELSE IF d.err # "ok" THEN [err |-> d.err, objects |-> <<>>]
             ELSE [err |-> more.err,
                   objects |->
                       << [type |-> h.ty, content |-> d.data,
                           base_sha |-> IF h.ty = RefDelta THEN base_sha ELSE None] >>
                       \o more.objects]

\* write_packfile up to the second pass: [err, objects]
ParsePack(data) ==
    IF Len(From(data, 8)) < 4 THEN [err |-> "struct.error", objects |-> <<>>]
    ELSE FirstPass(From(data, 12), Unpack32(Slice(data, 8, 12)))

(***************************************************************************)
(* write_packfile: process_object.                                         *)
(***************************************************************************)
\* is bit i of cmd set?
Bit(cmd, i) == (cmd \div Pow(2, i)) % 2 = 1

\* the loops "for i in range(n): if cmd & (1 << (first + i))": the bytes of a
\* field, low to high, from position pos (0-based) of delta.  [val, pos];
\* pos > Len(delta) when a byte was read past the end (IndexError)
RECURSIVE ReadField(_, _, _, _, _, _)
ReadField(delta, cmd, first, n, i, acc) ==
    IF i = n THEN acc
    ELSE IF ~Bit(cmd, first + i) THEN ReadField(delta, cmd, first, n, i + 1, acc)
    ELSE IF acc.pos >= Len(delta) THEN [val |-> acc.val, pos |-> Len(delta) + 1]
    ELSE ReadField(delta, cmd, first, n, i + 1,
                   [val |-> acc.val + (delta[acc.pos + 1] * Pow(256, i)), pos |-> acc.pos + 1])

\* the loop "while delta": [err, result]
RECURSIVE ApplyLoop(_, _, _)
ApplyLoop(base_content, delta, result) ==
    IF delta = <<>> THEN [err |-> "ok", result |-> result]
    ELSE LET cmd == delta[1]
             offset == ReadField(delta, cmd, 0, 4, 0, [val |-> 0, pos |-> 1])
             size == ReadField(delta, cmd, 4, 3, 0, [val |-> 0, pos |-> offset.pos])
         IN  IF cmd >= 128
             THEN IF offset.pos > Len(delta) \/ size.pos > Len(delta)
                  THEN [err |-> "IndexError", result |-> result]
                  ELSE ApplyLoop(base_content, From(delta, size.pos),
                                 result \o Slice(base_content, offset.val,
                                                 offset.val + size.val))
             ELSE ApplyLoop(base_content, From(delta, cmd + 1),
                            result \o Slice(delta, 1, cmd + 1))

\* "Skip size headers in delta", then the loop: [err, result]
ApplyDelta(base_content, content) ==
    LET s1 == next_size(content)
        s2 == next_size(s1.rest)
    IN  IF s1.err # "ok" THEN [err |-> s1.err, result |-> <<>>]
        ELSE IF s2.err # "ok" THEN [err |-> s2.err, result |-> <<>>]
        ELSE ApplyLoop(base_content, s2.rest, <<>>)

\* the write of an object of process_object: st is [store, processed]
StoreObject(st, obj_type, content) ==
    LET store_ == Envelope(obj_type, content)
        sha == Sha1Hex(store_)
    IN  [store |-> WriteClose(OpenWb(st.store, sha), sha, Compress(store_)),
         processed |-> st.processed \cup {sha},
         err |-> "ok", sha |-> sha]

\* "Find and process base object first": the first non-delta object of the
\* pack whose sha is base_sha is written; st is left as it is when none is
FindBase(st, objs, base_sha) ==
    LET hits == { k \in 1..Len(objs) :
                      /\ objs[k].type # RefDelta
                      /\ Sha1Hex(Envelope(objs[k].type, objs[k].content)) = base_sha }
        k0 == CHOOSE k \in hits : \A j \in hits : k <= j
        w == StoreObject(st, objs[k0].type, objs[k0].content)
    IN  IF hits = {} THEN st ELSE [store |-> w.store, processed |-> w.processed]

\* process_object that stores the result of every delta as a blob
process_object_as_blob(st, objs, obj) ==
    IF obj.type # RefDelta THEN StoreObject(st, obj.type, obj.content)
    ELSE LET st1 == IF obj.base_sha \notin st.processed
                    THEN FindBase(st, objs, obj.base_sha) ELSE st
             fail(e) == [store |-> st1.store, processed |-> st1.processed,
                         err |-> e, sha |-> <<>>]
             raw == Decompress(st1.store[obj.base_sha])
             r == ApplyDelta(From(raw, Index(raw, 0) + 1), obj.content)
         IN  IF obj.base_sha \notin DOMAIN st1.store THEN fail("FileNotFoundError")
             ELSE IF ~StreamOk(st1.store[obj.base_sha]) THEN fail("zlib.error")
             ELSE IF Index(raw, 0) < 0 THEN fail("IndexError")
             ELSE IF r.err # "ok" THEN fail(r.err)
             ELSE StoreObject(st1, Blob, r.result)

\* process_object(obj_data): [store, processed, err, sha]
process_object(st, objs, obj) ==
    IF obj.type # RefDelta THEN StoreObject(st, obj.type, obj.content)
    ELSE LET st1 == IF obj.base_sha \notin st.processed
                    THEN FindBase(st, objs, obj.base_sha) ELSE st
             fail(e) == [store |-> st1.store, processed |-> st1.processed,
                         err |-> e, sha |-> <<>>]
             raw == Decompress(st1.store[obj.base_sha])
             base_type == BeforeSpace(raw)
             base_content == From(raw, Index(raw, 0) + 1)
             r == ApplyDelta(base_content, obj.content)
         IN  IF obj.base_sha \notin DOMAIN st1.store THEN fail("FileNotFoundError")
             ELSE IF ~StreamOk(st1.store[obj.base_sha]) THEN fail("zlib.error")
             ELSE IF ~Utf8Ok(base_type) THEN fail("UnicodeDecodeError")
             ELSE IF Index(raw, 0) < 0 THEN fail("IndexError")
             ELSE IF r.err # "ok" THEN fail(r.err)
             ELSE StoreObject(st1, base_type, r.result)

(***************************************************************************)
(* The packs write_packfile is given: what the remote end sends.  A record *)
(* is [code, payload, base, instrs, target]: the type code, the object's   *)
(* payload or the delta's bytes, and for a delta the sha of its base, the  *)
(* instructions it was generated from and the target they reconstruct      *)
(* (None for a delta given as bytes only).                                 *)
(***************************************************************************)
\* a size in 7-bit groups, low group first, the top bit marking "more"
RECURSIVE EncSize(_)
EncSize(n) == IF n < 128 THEN <<n>> ELSE <<128 + (n % 128)>> \o EncSize(n \div 128)

\* a record's header: type code and the low 4 bits of the size, then the rest
ObjHeader(code, size) ==
    IF size < 16 THEN <<(code * 16) + size>>
    ELSE <<128 + (code * 16) + (size % 16)>> \o EncSize(size \div 16)

\* the n bytes of v, low byte first, with their presence bits from bit `first`
\* on: a zero byte is given only when all is set.  [bits, bytes]
RECURSIVE EncField(_, _, _, _, _)
EncField(v, n, first, all, i) ==
    IF i = n THEN [bits |-> 0, bytes |-> <<>>]
    ELSE LET b == (v \div Pow(256, i)) % 256
             more == EncField(v, n, first, all, i + 1)
         IN  IF b = 0 /\ ~all THEN more
             ELSE [bits |-> Pow(2, first + i) + more.bits, bytes |-> <<b>> \o more.bytes]

Copy(off, size, all) == [op |-> "copy", off |-> off, size |-> size, all |-> all, bytes |-> <<>>]
Ins(bytes) == [op |-> "insert", off |-> 0, size |-> Len(bytes), all |-> FALSE, bytes |-> bytes]

EncInstr(ins) ==
    IF ins.op = "insert" THEN <<Len(ins.bytes)>> \o ins.bytes
    ELSE LET o == EncField(ins.off, 4, 0, ins.all, 0)
             z == EncField(ins.size, 3, 4, ins.all, 0)
         IN  <<128 + o.bits + z.bits>> \o o.bytes \o z.bytes

RECURSIVE EncInstrs(_)
EncInstrs(instrs) ==
    IF instrs = <<>> THEN <<>> ELSE EncInstr(Head(instrs)) \o EncInstrs(Tail(instrs))

\* what the instructions reconstruct from base
RECURSIVE Target(_, _)
Target(base, instrs) ==
    IF instrs = <<>> THEN <<>>
    ELSE (IF Head(instrs).op = "insert" THEN Head(instrs).bytes
          ELSE SubSeq(base, Head(instrs).off + 1, Head(instrs).off + Head(instrs).size))
         \o Target(base, Tail(instrs))

\* a non-delta record
Obj(code, payload) ==
    [code |-> code, payload |-> payload, base |-> None, instrs |-> <<>>, target |-> None]

\* a ref_delta generated from instrs against the object (kind, base)
Delta(kind, base, instrs) ==
    [code |-> 7,
     payload |-> EncSize(Len(base)) \o EncSize(Len(Target(base, instrs))) \o EncInstrs(instrs),
     base |-> Sha1Hex(Envelope(kind, base)),
     instrs |-> instrs,
     target |-> Target(base, instrs)]

\* a ref_delta given as its bytes
RawDelta(kind, base, bytes) ==
    [code |-> 7, payload |-> bytes, base |-> Sha1Hex(Envelope(kind, base)),
     instrs |-> <<>>, target |-> None]

\* an ofs_delta: the delta's bytes, and the distance back to its base
OfsDelta(bytes, distance) ==
    [code |-> 6, payload |-> bytes, base |-> None, instrs |-> <<>>, target |-> None,
     distance |-> distance]

\* a record: header, then the base's sha for a ref_delta or the distance for
\* an ofs_delta, then the compressed payload
EncRecord(r) ==
    ObjHeader(r.code, Len(r.payload))
    \o (IF r.code = 7 THEN FromHex(r.base)
        ELSE IF r.code = 6 THEN EncSize(r.distance) ELSE <<>>)
    \o Compress(r.payload)

RECURSIVE EncRecords(_)
EncRecords(recs) == IF recs = <<>> THEN <<>> ELSE EncRecord(Head(recs)) \o EncRecords(Tail(recs))

\* four bytes of magic, the version, the count, the records, the checksum
EncodePackHead(head, recs) ==
    LET body == head.magic \o RawBytes(head.version, 4) \o RawBytes(Len(recs), 4)
                \o EncRecords(recs)
    IN  body \o RawBytes(Digest(body), DigestBytes)

\* "PACK", version 2, the count, the records, the checksum
EncodePack(recs) == EncodePackHead(GoodHead, recs)

(***************************************************************************)
(* write_packfile, as two actions: the first pass, and one turn of the     *)
(* loop "for obj in objects: process_object(obj)".                         *)
(***************************************************************************)
WritePackfileHead(head, recs) ==
    /\ pk.pc = "idle"
    /\ LET p == ParsePack(EncodePackHead(head, recs))
       IN  pk' = [pc |-> IF p.err # "ok" THEN "error"
                         ELSE IF p.objects = <<>> THEN "done" ELSE "pass2",
                  head |-> head, pack |-> recs, before |-> objects, objs |-> p.objects,
                  idx |-> 1, processed |-> {}, made |-> <<>>, err |-> p.err]
    /\ UNCHANGED <<objects, out, hist, clock, wr, seen, refs>>

\* write_packfile given a pack with the header "PACK", version 2
WritePackfileBegin(recs) == WritePackfileHead(GoodHead, recs)

ProcessNext ==
    /\ pk.pc = "pass2"
    /\ LET r == process_object([store |-> objects, processed |-> pk.processed],
                               pk.objs, pk.objs[pk.idx])
       IN  /\ objects' = r.store
           /\ pk' = [pk EXCEPT !.processed = r.processed,
                               !.made = Append(@, r.sha),
                               !.err = r.err,
                               !.idx = @ + 1,
                               !.pc = IF r.err # "ok" THEN "error"
                                      ELSE IF pk.idx = Len(pk.objs) THEN "done"
                                      ELSE "pass2"]
    /\ UNCHANGED <<out, hist, clock, wr, seen, refs>>

\* the objects the packs are made of
B0 == <<98, 97, 115, 101>>
B1 == <<97, 98, 99, 100, 101, 102, 103, 104, 105, 106>>
T1 == <<97, 98, 99, 100, 88, 89, 103, 104, 105, 106>>

RecordPool ==
    { Obj(3, B1),
      Delta(Blob, B1, <<Copy(0, 4, FALSE), Ins(<<88, 89>>), Copy(6, 4, FALSE)>>),
      Delta(Blob, T1, <<Copy(2, 3, FALSE), Ins(<<81>>)>>),
      Delta(Blob, B0, <<Copy(0, 2, TRUE)>>),
      RawDelta(Blob, B1, <<10, 10, 144, 0, 10>>) }

RECURSIVE SeqsUpTo(_, _)
SeqsUpTo(S, n) ==
    IF n = 0 THEN { <<>> }
    ELSE SeqsUpTo(S, n - 1) \cup { Append(q, x) : q \in SeqsUpTo(S, n - 1), x \in S }

Packs == SeqsUpTo(RecordPool, MaxPackObjs)

PackInit ==
    /\ objects \in { EmptyStore, HashObjectStore(EmptyStore, B0, Blob) }
    /\ out = [err |-> "ok", bytes |-> <<>>]
    /\ hist = <<>>
    /\ clock = 0
    /\ InitRest

PackNext ==
    \/ \E recs \in Packs : WritePackfileBegin(recs)
    \/ ProcessNext

SpecPack == PackInit /\ [][PackNext]_vars

(***************************************************************************)
(* Packs of one base object and one delta generated against it, the delta  *)
(* before or after its base.  The long base makes sizes and offsets that   *)
(* take more than one byte.                                                *)
(***************************************************************************)
B300 == [i \in 1..300 |-> 97 + (i % 7)]

InstrPool(base) ==
    IF base = B1
    THEN { Copy(0, 10, FALSE), Copy(0, 4, TRUE), Copy(6, 4, FALSE), Ins(<<88, 89>>) }
    ELSE { Copy(0, 300, FALSE), Copy(256, 44, FALSE), Copy(1, 260, TRUE),
           Copy(0, 256, FALSE), Ins(<<88>>) }

PacksOf(base) ==
    UNION { { << Obj(3, base), Delta(Blob, base, instrs) >>,
              << Delta(Blob, base, instrs), Obj(3, base) >> } :
            instrs \in SeqsUpTo(InstrPool(base), MaxInstrs) \ { <<>> } }

DeltaPacks == PacksOf(B1) \cup PacksOf(B300)

DeltaNext ==
    \/ \E recs \in DeltaPacks : WritePackfileBegin(recs)
    \/ ProcessNext

SpecDelta == StoreInit /\ [][DeltaNext]_vars

(***************************************************************************)
(* Packs that are not as the format asks: an ofs_delta record, a delta      *)
(* whose header declares another target size than its instructions make, a *)
(* delta with the instruction byte 0x00.                                   *)
(***************************************************************************)
\* sizes 10 and 5, then a copy of 10 bytes from offset 0
SizeMismatch == <<10, 5, 144, 10>>

\* sizes 10 and 10, then the byte 0x00, then a copy of 10 bytes from offset 0
ZeroCmd == <<10, 10, 0, 144, 10>>

IngestPool ==
    { Obj(3, B1),
      OfsDelta(<<10, 10, 144, 10>>, 5),
      RawDelta(Blob, B1, SizeMismatch),
      RawDelta(Blob, B1, ZeroCmd) }

IngestPacks == SeqsUpTo(IngestPool, MaxPackObjs)

IngestNext ==
    \/ \E recs \in IngestPacks : WritePackfileBegin(recs)
    \/ ProcessNext

SpecIngest == StoreInit /\ [][IngestNext]_vars

(***************************************************************************)
(* Packs of full objects under a header with "PACK" and version 2, with    *)
(* another magic, or with another version.                                 *)
(***************************************************************************)
Heads ==
    { GoodHead,
      [magic |-> <<74, 85, 78, 75>>, version |-> 2],
      [magic |-> PackMagic, version |-> 3] }

HeadPacks == SeqsUpTo({ Obj(3, B1), Obj(2, B0), Obj(1, T1) }, MaxPackObjs)

HeadNext ==
    \/ \E head \in Heads, recs \in HeadPacks : WritePackfileHead(head, recs)
    \/ ProcessNext

SpecHead == StoreInit /\ [][HeadNext]_vars

(***************************************************************************)
(* Packs of delta chains: an object of one kind, a delta against it, a     *)
(* delta against that delta's result, and a blob with the payload of the   *)
(* first delta's result.                                                   *)
(***************************************************************************)
T2 == <<99, 100, 88, 81>>

ToT1 == <<Copy(0, 4, FALSE), Ins(<<88, 89>>), Copy(6, 4, FALSE)>>
ToT2 == <<Copy(2, 3, FALSE), Ins(<<81>>)>>

ChainPool(code) ==
    { Obj(code, B1),
      Delta(type_map(code), B1, ToT1),
      Delta(type_map(code), T1, ToT2),
      Obj(3, T1) }

ChainPacks == UNION { SeqsUpTo(ChainPool(code), MaxPackObjs) : code \in {1, 2, 4} }

ChainNext ==
    \/ \E recs \in ChainPacks : WritePackfileBegin(recs)
    \/ ProcessNext

SpecChain == StoreInit /\ [][ChainNext]_vars

(***************************************************************************)
(* hash_object run by several processes at once on one .git/objects, and a *)
(* reader.  A writer's steps are the statements of hash_object that touch  *)
(* the file system: open(path, "wb"), which creates or truncates the file, *)
(* and the end of the with block, which flushes the buffered write and     *)
(* closes.                                                                 *)
(***************************************************************************)
Writers == 1..NumWriters

ConcInit ==
    /\ objects = EmptyStore
    /\ out = [err |-> "ok", bytes |-> <<>>]
    /\ hist = <<>>
    /\ clock = 0
    /\ pk = PkIdle
    /\ wr = [w \in Writers |-> [pc |-> "idle", data |-> <<>>, n |-> 0]]
    /\ seen = "none"
    /\ refs = AfterInit

\* hash_object(data, "blob") is called: lines 18-25
WriterCall(w, data) ==
    /\ wr[w].pc = "idle"
    /\ wr[w].n < MaxWrites
    /\ wr' = [wr EXCEPT ![w] = [pc |-> "called", data |-> data, n |-> @.n + 1]]
    /\ UNCHANGED <<objects, out, hist, clock, pk, seen, refs>>

\* with open(f"{path}/{sha[2:]}", "wb") as f
WriterOpen(w) ==
    /\ wr[w].pc = "called"
    /\ objects' = OpenWb(objects, HashObjectSha(wr[w].data, Blob))
    /\ wr' = [wr EXCEPT ![w].pc = "open"]
    /\ UNCHANGED <<out, hist, clock, pk, seen, refs>>

\* f.write(zlib.compress(store)), flushed as the with block ends; return sha
WriterClose(w) ==
    /\ wr[w].pc = "open"
    /\ objects' = WriteClose(objects, HashObjectSha(wr[w].data, Blob),
                             Compress(Envelope(Blob, wr[w].data)))
    /\ wr' = [wr EXCEPT ![w].pc = "idle"]
    /\ UNCHANGED <<out, hist, clock, pk, seen, refs>>

\* another process reads the object: read_object(".", sha)
ReaderRead(sha) ==
    /\ seen' = ReadObject(objects, sha).err
    /\ UNCHANGED <<objects, out, hist, clock, pk, wr, refs>>

ConcPayloads == { <<104, 105>>, <<97, 0, 98>> }

ConcNext ==
    \/ \E w \in Writers, data \in ConcPayloads : WriterCall(w, data)
    \/ \E w \in Writers : WriterOpen(w)
    \/ \E w \in Writers : WriterClose(w)
    \/ \E data \in ConcPayloads : ReaderRead(HashObjectSha(data, Blob))

SpecConc == ConcInit /\ [][ConcNext]_vars

(***************************************************************************)
(* download_packfile: the response of the fetch request, split into        *)
(* pkt-lines.                                                              *)
(***************************************************************************)
IsHexDigit(c) == c \in 48..57 \/ c \in 97..102 \/ c \in 65..70

\* int(s, 16) for s of hex digits, -1 when int raises ValueError
RECURSIVE Int16(_)
Int16(s) ==
    IF s = <<>> THEN -1
    ELSE IF ~IsHexDigit(s[Len(s)]) THEN -1
    ELSE LET d == IF s[Len(s)] >= 97 THEN s[Len(s)] - 87
                  ELSE IF s[Len(s)] >= 65 THEN s[Len(s)] - 55 ELSE s[Len(s)] - 48
             hi == IF Len(s) = 1 THEN 0 ELSE Int16(SubSeq(s, 1, Len(s) - 1))
         IN  IF hi < 0 THEN -1 ELSE (hi * 16) + d

\* the loop "while data": [err, pack_lines]
RECURSIVE PackLines(_)
PackLines(data) ==
    IF data = <<>> THEN [err |-> "ok", pack_lines |-> <<>>]
    ELSE LET line_len == Int16(Slice(data, 0, 4))
             more == PackLines(From(data, line_len))
         IN  IF line_len < 0 THEN [err |-> "ValueError", pack_lines |-> <<>>]
             ELSE IF line_len = 0 THEN [err |-> "ok", pack_lines |-> <<>>]
             ELSE [err |-> more.err,
                   pack_lines |-> << Slice(data, 4, line_len) >> \o more.pack_lines]

\* b"".join(l[1:] for l in lines)
RECURSIVE JoinTails(_)
JoinTails(lines) ==
    IF lines = <<>> THEN <<>> ELSE From(Head(lines), 1) \o JoinTails(Tail(lines))

\* download_packfile(url, want_ref), given the body of the response: [err, bytes]
download_packfile(data) ==
    LET r == PackLines(data)
    IN  IF r.err # "ok" THEN [err |-> r.err, bytes |-> <<>>]
        ELSE [err |-> "ok", bytes |-> JoinTails(From(r.pack_lines, 1))]

(***************************************************************************)
(* The responses download_packfile is given: the line "packfile\n", then   *)
(* pkt-lines of one channel byte and a payload, then a flush packet.       *)
(***************************************************************************)
\* one pkt-line: the length in four hex digits, counting them, then the payload
PktLine(payload) == Hex(RawBytes(Len(payload) + 4, 2)) \o payload

Flush == <<48, 48, 48, 48>>

PackfileLine == <<112, 97, 99, 107, 102, 105, 108, 101, 10>>

Pkt(ch, payload) == [ch |-> ch, payload |-> payload]

RECURSIVE EncPkts(_)
EncPkts(pkts) ==
    IF pkts = <<>> THEN <<>>
    ELSE PktLine(<<Head(pkts).ch>> \o Head(pkts).payload) \o EncPkts(Tail(pkts))

FetchResponse(pkts) == PktLine(PackfileLine) \o EncPkts(pkts) \o Flush

PktPool == { Pkt(ch, b) : ch \in 1..3, b \in { <<65>>, <<66, 67>> } }

Responses == SeqsUpTo(PktPool, MaxPkts)

\* download_packfile is called, once in a behaviour
DownloadPackfileCall(pkts) ==
    /\ hist = <<>>
    /\ LET r == download_packfile(FetchResponse(pkts))
       IN  /\ out' = r
           /\ hist' = Append(hist, Entry("download_packfile", pkts, <<>>, <<>>, clock,
                                         <<>>, r.bytes, r.err))
    /\ UNCHANGED <<objects, clock, pk, wr, seen, refs>>

FetchNext == \E pkts \in Responses : DownloadPackfileCall(pkts)

SpecFetch == StoreInit /\ [][FetchNext]_vars

(***************************************************************************)
(* init and ls-tree.                                                       *)
(***************************************************************************)
\* init: os.mkdir(".git") raises when there is a .git already
InitCmd ==
    /\ IF refs.dir
       THEN /\ out' = [err |-> "FileExistsError", bytes |-> <<>>]
            /\ hist' = Append(hist, Entry("init", <<>>, <<>>, <<>>, clock, <<>>, <<>>,
                                          "FileExistsError"))
            /\ UNCHANGED refs
       ELSE /\ out' = [err |-> "ok", bytes |-> <<>>]
            /\ hist' = Append(hist, Entry("init", <<>>, <<>>, <<>>, clock, <<>>, <<>>, "ok"))
            /\ refs' = AfterInit
    /\ UNCHANGED <<objects, clock, pk, wr, seen>>

\* the loop "while pos < len(content)" of ls-tree: [err, bytes], the names
\* of the entries from pos on, a line each
RECURSIVE LsEntries(_, _)
LsEntries(content, pos) ==
    IF pos >= Len(content) THEN [err |-> "ok", bytes |-> <<>>]
    ELSE LET null_pos == IndexFrom(content, 0, pos)
             mode_name == Slice(content, pos, null_pos)
             name == From(mode_name, Index(mode_name, 32) + 1)
             more == LsEntries(content, null_pos + 1 + DigestBytes)
         IN  IF null_pos < 0 THEN [err |-> "ValueError", bytes |-> <<>>]
             ELSE IF Index(mode_name, 32) < 0 THEN [err |-> "ValueError", bytes |-> <<>>]
             ELSE IF ~Utf8Ok(name) THEN [err |-> "UnicodeDecodeError", bytes |-> <<>>]
             ELSE IF more.err # "ok" THEN more
             ELSE [err |-> "ok", bytes |-> name \o LF \o more.bytes]

\* main, command == "ls-tree", with --name-only: [err, bytes printed]
LsTree(store, sha) ==
    IF sha \notin DOMAIN store THEN [err |-> "FileNotFoundError", bytes |-> <<>>]
    ELSE IF ~StreamOk(store[sha]) THEN [err |-> "zlib.error", bytes |-> <<>>]
    ELSE LET data == Decompress(store[sha])
         IN  IF Index(data, 0) < 0 THEN [err |-> "ValueError", bytes |-> <<>>]
             ELSE LsEntries(From(data, Index(data, 0) + 1), 0)

\* ls-tree --name-only <sha>
LsTreeCmd(sha) ==
    /\ LET r == LsTree(objects, sha)
       IN  /\ out' = r
           /\ hist' = Append(hist, Entry("ls-tree", <<>>, <<>>, <<>>, clock, sha,
                                         r.bytes, r.err))
    /\ UNCHANGED <<objects, clock, pk, wr, seen, refs>>

(***************************************************************************)
(* clone.                                                                  *)
(***************************************************************************)
\* the loop "for obj in objects: process_object(obj)" from object k on, st
\* being what the objects before left: [store, processed, err, sha]
RECURSIVE SecondPass(_, _, _)
SecondPass(st, objs, k) ==
    IF st.err # "ok" \/ k > Len(objs) THEN st
    ELSE SecondPass(process_object(st, objs, objs[k]), objs, k + 1)

\* write_packfile after the first pass, p being what the first pass made of
\* the data: [store, err]
WritePackfileObjects(store, p) ==
    IF p.err # "ok" THEN [store |-> store, err |-> p.err]
    ELSE [store |-> SecondPass([store |-> store, processed |-> {}, err |-> "ok",
                                sha |-> <<>>], p.objects, 1).store,
          err |-> SecondPass([store |-> store, processed |-> {}, err |-> "ok",
                              sha |-> <<>>], p.objects, 1).err]

\* write_packfile(data, target_dir): [store, err]
write_packfile(store, data) == WritePackfileObjects(store, ParsePack(data))

\* render_tree(repo_path, dir_path, sha): how it ends.  RenderEntries is its
\* loop "while tree_content".  The files it writes into the working
\* directory are not part of the state.
RECURSIVE render_tree(_, _), RenderEntries(_, _)
RenderEntries(store, tree_content) ==
    IF tree_content = <<>> THEN "ok"
    ELSE LET sp == Index(tree_content, 32)
             mode == Slice(tree_content, 0, sp)
             after_mode == From(tree_content, sp + 1)
             nul == Index(after_mode, 0)
             name == Slice(after_mode, 0, nul)
             after_name == From(after_mode, nul + 1)
             entry_sha == Hex(Slice(after_name, 0, DigestBytes))
             rest == From(after_name, DigestBytes)
             this ==
                 IF mode = <<52, 48, 48, 48, 48>> THEN render_tree(store, entry_sha)
                 ELSE IF mode = <<49, 48, 48, 54, 52, 52>>
                 THEN ReadObject(store, entry_sha).err
                 ELSE "RuntimeError"
         IN  IF sp < 0 \/ nul < 0 THEN "ValueError"
             ELSE IF ~Utf8Ok(name) THEN "UnicodeDecodeError"
             ELSE IF this # "ok" THEN this
             ELSE RenderEntries(store, rest)

render_tree(store, sha) ==
    IF ReadObject(store, sha).err # "ok" THEN ReadObject(store, sha).err
    ELSE RenderEntries(store, ReadObject(store, sha).content)

\* how a clone ends: [store, files, err, phase, sha]
CloneEnd(store, files, err, phase, sha) ==
    [store |-> store, files |-> files, err |-> err, phase |-> phase, sha |-> sha]

\* main, command == "clone", "Read the commit and tree" and render_tree
CloneCheckout(store, files, default_ref_sha) ==
    LET commit == ReadObject(store, default_ref_sha)
        tree_sha == Slice(commit.content, 5, 5 + (2 * DigestBytes))
    IN  IF commit.err # "ok" THEN CloneEnd(store, files, commit.err, "checkout", <<>>)
        ELSE IF ~Utf8Ok(tree_sha)
        THEN CloneEnd(store, files, "UnicodeDecodeError", "checkout", <<>>)
        ELSE CloneEnd(store, files, render_tree(store, tree_sha), "checkout", default_ref_sha)

\* main, command == "clone", after write_packfile, w being how it ended:
\* HEAD and the branch ref are written, then the checkout
CloneIngest(default_branch, default_ref_sha, w) ==
    IF w.err # "ok" THEN CloneEnd(w.store, NoRepo.files, w.err, "ingest", <<>>)
    ELSE CloneCheckout(
             w.store,
             WriteFile(WriteFile(NoRepo.files, HeadPath, RefPrefix \o default_branch \o LF),
                       default_branch, default_ref_sha \o LF),
             default_ref_sha)

\* main, command == "clone", after download_packfile, given what urlopen
\* raised (err) and what download_packfile made of the body (packfile)
CloneFetch(default_branch, default_ref_sha, err, packfile) ==
    IF err # "ok" THEN CloneEnd(EmptyStore, NoRepo.files, err, "fetch", <<>>)
    ELSE IF packfile.err # "ok"
    THEN CloneEnd(EmptyStore, NoRepo.files, packfile.err, "fetch", <<>>)
    ELSE CloneIngest(default_branch, default_ref_sha,
                     write_packfile(EmptyStore, packfile.bytes))

\* main, command == "clone", from the call of get_refs on, with what
\* get_refs returns or raises (discovery) and the response of the fetch:
\* [store, files, err, phase, sha]
Clone(discovery, response) ==
    LET default_branch ==
            IF discovery.default_branch = None THEN RefsHeadsMain
            ELSE discovery.default_branch
        hits == { k \in 1..Len(discovery.refs) : discovery.refs[k][2] = default_branch }
    IN  IF discovery.err # "ok"
        THEN CloneEnd(EmptyStore, NoRepo.files, discovery.err, "discovery", <<>>)
        ELSE IF hits = {}
        THEN CloneEnd(EmptyStore, NoRepo.files, "RuntimeError", "discovery", <<>>)
        ELSE CloneFetch(default_branch,
                        discovery.refs[CHOOSE k \in hits : \A j \in hits : k <= j][1],
                        response.err, download_packfile(response.body))

\* clone <remote> <local>: os.makedirs(local) raises when local is there
\* already; otherwise local, .git/objects and .git/refs are made and the
\* clone goes on
CloneCmd(discovery, response) ==
    /\ IF refs.wd
       THEN /\ out' = [err |-> "FileExistsError", bytes |-> <<>>]
            /\ hist' = Append(hist, Entry("clone", discovery, response, "makedirs", clock,
                                          <<>>, <<>>, "FileExistsError"))
            /\ UNCHANGED <<objects, refs>>
       ELSE \E r \in { Clone(discovery, response) } :
                /\ out' = [err |-> r.err, bytes |-> <<>>]
                /\ hist' = Append(hist, Entry("clone", discovery, response, r.phase, clock,
                                              r.sha, <<>>, r.err))
                /\ objects' = r.store
                /\ refs' = [wd |-> TRUE, dir |-> TRUE, files |-> r.files]
    /\ UNCHANGED <<clock, pk, wr, seen>>

(***************************************************************************)
(* The remote ends clone talks to: a repository of one commit, its tree    *)
(* and the tree's one file.                                                *)
(***************************************************************************)
RemoteBlob == <<120>>

RemoteTree ==
    create_tree_entry(<<49, 48, 48, 54, 52, 52>>, <<102>>, HashObjectSha(RemoteBlob, Blob))

RemoteCommit ==
    <<116, 114, 101, 101, 32>> \o HashObjectSha(RemoteTree, Tree) \o LF
    \o <<97, 117, 116, 104, 111, 114, 32, 97>> \o LF \o LF \o <<109>> \o LF

RemoteHead == HashObjectSha(RemoteCommit, Commit)

RefsHeadsDev == <<114, 101, 102, 115, 47, 104, 101, 97, 100, 115, 47, 100, 101, 118>>

\* what get_refs returns, as [err, default_branch, refs]: default_branch is
\* caps["default_branch"], None when the capabilities name no symref
Discovered(default_branch, list) ==
    [err |-> "ok", default_branch |-> default_branch, refs |-> list]

Discoveries ==
    { [err |-> "URLError", default_branch |-> None, refs |-> <<>>],
      Discovered(RefsHeadsMain, << <<RemoteHead, HeadPath>>, <<RemoteHead, RefsHeadsMain>> >>),
      Discovered(None, << <<RemoteHead, RefsHeadsMain>> >>),
      Discovered(RefsHeadsDev, << <<RemoteHead, RefsHeadsMain>> >>) }

RemotePool ==
    { Obj(1, RemoteCommit), Obj(2, RemoteTree), Obj(3, RemoteBlob),
      Delta(Blob, B0, <<Copy(0, 2, TRUE)>>) }

\* the body of the fetch response that carries a pack
PackResponse(recs) ==
    [err |-> "ok", body |-> FetchResponse(<< Pkt(1, EncodePack(recs)) >>)]

FetchResponses ==
    { [err |-> "URLError", body |-> <<>>],
      [err |-> "ok", body |-> <<48, 48, 122, 122>>] }
    \cup { PackResponse(recs) : recs \in SeqsUpTo(RemotePool, MaxPackObjs) }

CloneInit ==
    /\ objects = EmptyStore
    /\ out = [err |-> "ok", bytes |-> <<>>]
    /\ hist = <<>>
    /\ clock = 0
    /\ pk = PkIdle
    /\ wr = <<>>
    /\ seen = "none"
    /\ refs \in { NoRepo, EmptyDir }

CloneNext ==
    /\ hist = <<>>
    /\ \E d \in Discoveries, r \in FetchResponses : CloneCmd(d, r)

SpecClone == CloneInit /\ [][CloneNext]_vars

(***************************************************************************)
(* The life of a repository: a directory, there already or not, in which   *)
(* or into which the commands are run one after the other.                 *)
(***************************************************************************)
LifePayloads == { <<104, 105>>, RemoteBlob }

LifeDirs ==
    { { File(<<102>>, FALSE, RemoteBlob) },
      { File(<<102>>, FALSE, <<104, 105>>), Dir(DotGit, { File(HeadPath, FALSE, <<>>) }) } }

LifeArgs == { << <<"-p", MissingSha>>, <<"-m", <<109>> >> >> }

\* remote ends: one that sends the repository, one that sends a pack of no
\* objects, one whose fetch fails
LifeRemotes ==
    { << Discovered(None, << <<RemoteHead, RefsHeadsMain>> >>),
         PackResponse(<< Obj(1, RemoteCommit), Obj(2, RemoteTree), Obj(3, RemoteBlob) >>) >>,
      << Discovered(None, << <<RemoteHead, RefsHeadsMain>> >>), PackResponse(<<>>) >>,
      << Discovered(None, << <<RemoteHead, RefsHeadsMain>> >>),
         [err |-> "URLError", body |-> <<>>] >> }

\* the commands but clone are run in the directory, clone from beside it
LifeNext ==
    /\ Len(hist) < MaxLife
    /\ \/ refs.wd /\ InitCmd
       \/ refs.wd /\ \E data \in LifePayloads : HashObject(data, Blob)
       \/ refs.wd /\ \E dir \in LifeDirs : WriteTreeCmd(dir, "fwd")
       \/ refs.wd /\ \E t \in ShaArgs, args \in LifeArgs : CommitTreeCmd(t, args)
       \/ refs.wd /\ \E sha \in ShaArgs : CatFileCmd("-p", sha)
       \/ refs.wd /\ \E sha \in ShaArgs : LsTreeCmd(sha)
       \/ \E rem \in LifeRemotes : CloneCmd(rem[1], rem[2])

SpecLife == CloneInit /\ [][LifeNext]_vars

(***************************************************************************)
(* Properties of the store's commands.                                     *)
(***************************************************************************)
\* the store as command i of the history left it
StoreAfter(i) == IF i = Len(hist) THEN objects ELSE hist[i + 1].before

\* C2 (hash round-trip): hash_object(B, "blob") returns the sha1 of
\* "blob <len(B)>\0" + B, and read_object of that sha, right after the write,
\* yields kind "blob" and payload exactly B.
C2_HashRoundTrip ==
    \A i \in 1..Len(hist) :
        (hist[i].op = "hash_object" /\ hist[i].b = Blob) =>
            /\ hist[i].sha
                 = Sha1Hex(<<98, 108, 111, 98, 32>> \o Dec(Len(hist[i].a)) \o <<0>> \o hist[i].a)
            /\ ReadObject(StoreAfter(i), hist[i].sha)
                 = [err |-> "ok", kind |-> Blob, content |-> hist[i].a]
            /\ (i < Len(hist) /\ hist[i + 1].op = "read_object"
                    /\ hist[i + 1].sha = hist[i].sha) =>
                   /\ hist[i + 1].err = "ok"
                   /\ hist[i + 1].b = Blob
                   /\ hist[i + 1].res = hist[i].a

\* a blob with a NUL inside was written and then read back
C2_Witness ==
    \E i \in 1..Len(hist) :
        /\ i < Len(hist)
        /\ hist[i].op = "hash_object" /\ hist[i].b = Blob /\ hist[i].a = <<97, 0, 98>>
        /\ hist[i + 1].op = "read_object" /\ hist[i + 1].sha = hist[i].sha
        /\ hist[i + 1].res = <<97, 0, 98>>

\* C3 (idempotent write): hash_object(B, k) twice in a row returns the same sha
\* both times, and the second write leaves every path and every file of the
\* store as the first write left them.
C3_IdempotentWrite ==
    \A i \in 2..Len(hist) :
        (/\ hist[i].op = "hash_object" /\ hist[i - 1].op = "hash_object"
         /\ hist[i].a = hist[i - 1].a /\ hist[i].b = hist[i - 1].b) =>
            /\ hist[i].sha = hist[i - 1].sha
            /\ StoreAfter(i) = hist[i].before

\* the same tree payload was written twice in a row into a store that held
\* another object already
C3_Witness ==
    /\ Len(hist) = 3
    /\ hist[1].op = "hash_object" /\ hist[1].a = <<104, 105>> /\ hist[1].b = Blob
    /\ hist[2].op = "hash_object" /\ hist[2].a = <<97, 0, 98>> /\ hist[2].b = Tree
    /\ hist[3].op = "hash_object" /\ hist[3].a = <<97, 0, 98>> /\ hist[3].b = Tree
    /\ hist[3].sha \in DOMAIN objects
    /\ Cardinality(DOMAIN objects) = 2

\* the payload of the object stored under sha: the bytes after the first NUL
\* of its envelope
PayloadOf(store, sha) ==
    LET env == Decompress(store[sha]) IN From(env, Index(env, 0) + 1)

\* C9: cat-file -p <sha> of a stored object prints its payload, the bytes after
\* the first NUL of the envelope, with nothing dropped or added, also when
\* the payload holds NUL bytes.
C9_CatFileVerbatim ==
    \A i \in 1..Len(hist) :
        (/\ hist[i].op = "cat-file" /\ hist[i].c = "-p"
         /\ hist[i].sha \in DOMAIN hist[i].before) =>
            /\ hist[i].err = "ok"
            /\ hist[i].res = PayloadOf(hist[i].before, hist[i].sha)

RECURSIVE ParentLines(_)
ParentLines(args) ==
    IF args = <<>> THEN <<>>
    ELSE (IF Head(args)[1] = "-p"
          THEN <<112, 97, 114, 101, 110, 116, 32>> \o Head(args)[2] \o LF
          ELSE <<>>) \o ParentLines(Tail(args))

\* C8: the commit payload is "tree <hex>\n", then one "parent <hex>\n" line for
\* every parent given with -p and none when -p is omitted, then the author line.
C8_ParentLines ==
    \A i \in 1..Len(hist) :
        (hist[i].op = "commit-tree" /\ hist[i].err = "ok") =>
            LET head == <<116, 114, 101, 101, 32>> \o hist[i].a \o LF
                        \o ParentLines(hist[i].b) \o <<97, 117, 116, 104, 111, 114, 32>>
            IN  Slice(hist[i].res, 0, Len(head)) = head

(***************************************************************************)
(* Properties of write-tree.                                               *)
(***************************************************************************)
\* the sort key of a tree entry: the name, with "/" appended for a directory
SortKey(e) == IF e.type = "dir" THEN e.name \o <<47>> ELSE e.name

\* the entries write-tree encodes (files and directories other than .git),
\* in the order of their sort keys
RECURSIVE KeyOrder(_)
KeyOrder(dir) ==
    IF dir = {} THEN <<>>
    ELSE LET e == CHOOSE x \in dir :
                      \A y \in dir \ {x} : LexLess(SortKey(x), SortKey(y))
         IN  <<e>> \o KeyOrder(dir \ {e})

Encoded(dir) == { e \in dir : e.type \in {"file", "dir"} /\ e.name # DotGit }

\* the tree payload of a directory with its entries in sort-key order
RECURSIVE KeyOrderTree(_), KeyOrderEntries(_)
KeyOrderEntries(es) ==
    IF es = <<>> THEN <<>>
    ELSE LET e == Head(es)
         IN  (IF e.type = "dir"
              THEN <<52, 48, 48, 48, 48>> \o SP \o e.name \o NUL
                   \o FromHex(Sha1Hex(Envelope(Tree, KeyOrderTree(e.children))))
              ELSE (IF e.exec THEN <<49, 48, 48, 55, 53, 53>> ELSE <<49, 48, 48, 54, 52, 52>>)
                   \o SP \o e.name \o NUL \o FromHex(Sha1Hex(Envelope(Blob, e.data))))
             \o KeyOrderEntries(Tail(es))

KeyOrderTree(dir) == KeyOrderEntries(KeyOrder(Encoded(dir)))

\* C4 (tree determinism): write-tree encodes a directory's entries in the order
\* of the sort key "name, with a trailing / for a directory", so that the tree
\* sha is the same whatever order the directory listing has, also when a file
\* name and a directory name share a prefix.
C4_TreeSortKey ==
    \A i \in 1..Len(hist) :
        hist[i].op = "write-tree" =>
            /\ hist[i].res = KeyOrderTree(hist[i].a)
            /\ hist[i].sha = Sha1Hex(Envelope(Tree, KeyOrderTree(hist[i].a)))
            /\ \A j \in 1..Len(hist) :
                   (hist[j].op = "write-tree" /\ hist[j].a = hist[i].a) =>
                       hist[j].sha = hist[i].sha

\* what does hold: the listing order never changes the tree (the names are
\* sorted, by the bare name)
TreeListingOrderFree ==
    \A i, j \in 1..Len(hist) :
        (hist[i].op = "write-tree" /\ hist[j].op = "write-tree" /\ hist[j].a = hist[i].a) =>
            hist[j].sha = hist[i].sha

\* what does hold: sort-key order where no file name starts with a directory's
\* name
NoSharedPrefix(dir) ==
    \A d \in Encoded(dir), f \in Encoded(dir) :
        (d.type = "dir" /\ f.type = "file") =>
            Slice(f.name, 0, Len(d.name)) # d.name

RECURSIVE NoSharedPrefixDeep(_)
NoSharedPrefixDeep(dir) ==
    /\ NoSharedPrefix(dir)
    /\ \A d \in Encoded(dir) : d.type = "dir" => NoSharedPrefixDeep(d.children)

TreeSortKeyWithoutSharedPrefix ==
    \A i \in 1..Len(hist) :
        (hist[i].op = "write-tree" /\ NoSharedPrefixDeep(hist[i].a)) =>
            hist[i].res = KeyOrderTree(hist[i].a)

(***************************************************************************)
(* Properties of pack ingestion.                                           *)
(***************************************************************************)
\* Delta application as the format defines it: a copy whose size field reads
\* as zero copies 0x10000 bytes.  [err, result]
RECURSIVE FormatApplyLoop(_, _, _)
FormatApplyLoop(base, delta, result) ==
    IF delta = <<>> THEN [err |-> "ok", result |-> result]
    ELSE LET cmd == delta[1]
             offset == ReadField(delta, cmd, 0, 4, 0, [val |-> 0, pos |-> 1])
             size == ReadField(delta, cmd, 4, 3, 0, [val |-> 0, pos |-> offset.pos])
             n == IF size.val = 0 THEN 65536 ELSE size.val
         IN  IF cmd = 0 THEN [err |-> "MalformedDelta", result |-> result]
             ELSE IF cmd >= 128
             THEN IF offset.pos > Len(delta) \/ size.pos > Len(delta)
                  THEN [err |-> "MalformedDelta", result |-> result]
                  ELSE FormatApplyLoop(base, From(delta, size.pos),
                                       result \o Slice(base, offset.val, offset.val + n))
             ELSE FormatApplyLoop(base, From(delta, cmd + 1),
                                  result \o Slice(delta, 1, cmd + 1))

FormatApply(base, delta) ==
    FormatApplyLoop(base, next_size(next_size(delta).rest).rest, <<>>)

\* the objects of a store, as [sha, kind, payload]
Known(store) ==
    { [sha |-> h, kind |-> ReadObject(store, h).kind, payload |-> ReadObject(store, h).content] :
        h \in DOMAIN store }

\* the objects a pack yields once more, given the objects known so far: its
\* non-delta records, and the result of every delta whose base is known
KindOfCode(code) == type_map(code)

Yield(known, pack) ==
    known
    \cup { [sha |-> Sha1Hex(Envelope(KindOfCode(pack[k].code), pack[k].payload)),
            kind |-> KindOfCode(pack[k].code), payload |-> pack[k].payload] :
             k \in { j \in 1..Len(pack) : pack[j].code # 7 } }
    \cup { LET r == pack[km[1]]
               t == IF r.target # None THEN r.target
                    ELSE FormatApply(km[2].payload, r.payload).result
           IN  [sha |-> Sha1Hex(Envelope(km[2].kind, t)), kind |-> km[2].kind, payload |-> t] :
             km \in { x \in (1..Len(pack)) \X known :
                          pack[x[1]].code = 7 /\ pack[x[1]].base = x[2].sha } }

RECURSIVE YieldN(_, _, _)
YieldN(known, pack, n) == IF n = 0 THEN known ELSE YieldN(Yield(known, pack), pack, n - 1)

\* every object the pack can produce from the store it is ingested into
Produced(pack, store) == YieldN(Known(store), pack, Len(pack))

\* a well-formed pack: every ref_delta's base is in the store already or is
\* produced by the pack, as a non-delta object or as the result of a delta
WellFormed(pack, store) ==
    \A k \in 1..Len(pack) :
        pack[k].code = 7 => \E m \in Produced(pack, store) : m.sha = pack[k].base

\* C1 (pack completeness): write_packfile, given a well-formed pack, finishes
\* with every referenced base sha in the store and no delta left unresolved,
\* wherever in the pack the base of a delta is produced.
C1_PackCompleteness ==
    (pk.pc \in {"done", "error"} /\ WellFormed(pk.pack, pk.before)) =>
        /\ pk.pc = "done"
        /\ Len(pk.made) = Len(pk.pack)
        /\ \A k \in 1..Len(pk.pack) :
               pk.pack[k].code = 7 => pk.pack[k].base \in DOMAIN objects

\* what does hold: completeness for the well-formed packs in which no delta's
\* base is the result of a delta that comes later in the pack
ResultOf(pack, store, k) ==
    { m \in Produced(pack, store) :
        \E b \in Produced(pack, store) :
            /\ b.sha = pack[k].base
            /\ m.kind = b.kind
            /\ m.payload = IF pack[k].target # None THEN pack[k].target
                           ELSE FormatApply(b.payload, pack[k].payload).result }

BaseFromLaterDelta(pack, store) ==
    \E k \in 1..Len(pack) :
        /\ pack[k].code = 7
        /\ pack[k].base \notin DOMAIN store
        /\ \A j \in 1..Len(pack) :
               pack[j].code # 7 =>
                   Sha1Hex(Envelope(KindOfCode(pack[j].code), pack[j].payload)) # pack[k].base
        /\ \A j \in 1..(k - 1) :
               pack[j].code = 7 =>
                   \A m \in ResultOf(pack, store, j) : m.sha # pack[k].base

PackCompleteBasesFirst ==
    (/\ pk.pc \in {"done", "error"}
     /\ WellFormed(pk.pack, pk.before)
     /\ ~BaseFromLaterDelta(pk.pack, pk.before)) =>
        /\ pk.pc = "done"
        /\ \A k \in 1..Len(pk.pack) :
               pk.pack[k].code = 7 => pk.pack[k].base \in DOMAIN objects

\* the delta of the format's example: sizes 10 and 10, then 0x90 0x00 (a copy
\* from offset 0 whose size byte is zero), then 0x0a
ZeroSizeCopy == <<10, 10, 144, 0, 10>>

\* C6: a copy instruction whose size field reads as zero copies 0x10000 bytes
\* of the base from its offset; for base "abcdefghij" and delta bytes
\* 0a 0a 90 00 0a the object stored has the payload "abcdefghij".
C6_ZeroSizeCopy ==
    \A k \in 1..Len(pk.made) :
        (pk.pack[k] = RawDelta(Blob, B1, ZeroSizeCopy) /\ pk.made[k] # <<>>) =>
            /\ FormatApply(B1, ZeroSizeCopy).result = B1
            /\ ReadObject(objects, pk.made[k]).content = FormatApply(B1, ZeroSizeCopy).result

\* C5 (delta fixed-point): for a base B and a delta generated from insert and
\* copy instructions (sizes not zero, ranges inside B) to reconstruct T, with
\* |B| and |T| in its header, ingestion stores an object whose payload is
\* exactly T; a delta that is one copy of the whole base stores B.
C5_DeltaFixedPoint ==
    /\ pk.pc # "error"
    /\ \A k \in 1..Len(pk.made) :
           (pk.pack[k].code = 7 /\ pk.pack[k].target # None) =>
               /\ ReadObject(objects, pk.made[k])
                    = [err |-> "ok", kind |-> Blob, content |-> pk.pack[k].target]
               /\ \A j \in 1..Len(pk.pack) :
                      (/\ pk.pack[j].code # 7
                       /\ Len(pk.pack[k].instrs) = 1
                       /\ pk.pack[k].instrs[1].op = "copy"
                       /\ pk.pack[k].instrs[1].off = 0
                       /\ pk.pack[k].instrs[1].size = Len(pk.pack[j].payload)) =>
                          ReadObject(objects, pk.made[k]).content = pk.pack[j].payload

\* a delta of a copy from beyond offset 255 and an insert was applied to the
\* 300-byte base, which came after it in the pack
C5_Witness ==
    /\ pk.pc = "done"
    /\ pk.pack = << Delta(Blob, B300, << Copy(256, 44, FALSE), Ins(<<88>>) >>), Obj(3, B300) >>
    /\ Len(ReadObject(objects, pk.made[1]).content) = 45
    /\ ReadObject(objects, pk.made[1]).content[45] = 88

(***************************************************************************)
(* Properties of concurrent writes.                                        *)
(***************************************************************************)
\* C10: at every point of a write, first or repeated, a reader of the object's
\* path finds the file absent or a complete compressed object, never an empty
\* or partial file; and once the writers of an object have returned, the
\* complete object is in the store.
C10_AtomicWrite ==
    /\ seen \in {"none", "FileNotFoundError", "ok"}
    /\ \A w \in Writers :
           (wr[w].n > 0 /\ \A v \in Writers : wr[v].pc = "idle") =>
               ReadObject(objects, HashObjectSha(wr[w].data, Blob))
                 = [err |-> "ok", kind |-> Blob, content |-> wr[w].data]

\* what does hold: once every writer has returned, every object written is
\* complete
WritersLeaveComplete ==
    (\A v \in Writers : wr[v].pc = "idle") =>
        /\ \A h \in DOMAIN objects : StreamOk(objects[h])
        /\ \A w \in Writers :
               wr[w].n > 0 =>
                   ReadObject(objects, HashObjectSha(wr[w].data, Blob)).content = wr[w].data

(***************************************************************************)
(* Properties of the fetch response.                                       *)
(***************************************************************************)
\* the payloads of the pkt-lines of channel 1, in order
RECURSIVE Channel1(_)
Channel1(pkts) ==
    IF pkts = <<>> THEN <<>>
    ELSE (IF Head(pkts).ch = 1 THEN Head(pkts).payload ELSE <<>>) \o Channel1(Tail(pkts))

\* C16: the bytes download_packfile returns are the payloads of the pkt-lines
\* of channel 1 after the "packfile" line, in order, the channel byte
\* stripped; payloads of channel 2 are left out, and a payload of channel 3
\* makes the fetch fail with RemoteError.
C16_SidebandDemux ==
    \A i \in 1..Len(hist) :
        hist[i].op = "download_packfile" =>
            IF \E k \in 1..Len(hist[i].a) : hist[i].a[k].ch = 3
            THEN hist[i].err # "ok"
            ELSE /\ hist[i].err = "ok"
                 /\ hist[i].res = Channel1(hist[i].a)

\* what does hold: a response of channel-1 pkt-lines only yields their payloads
Channel1Only ==
    \A i \in 1..Len(hist) :
        (/\ hist[i].op = "download_packfile"
         /\ \A k \in 1..Len(hist[i].a) : hist[i].a[k].ch = 1) =>
            /\ hist[i].err = "ok"
            /\ hist[i].res = Channel1(hist[i].a)

(***************************************************************************)
(* Properties of pack ingestion: what is rejected, and kinds.              *)
(***************************************************************************)
\* the target size a delta's header declares
DeclaredTarget(delta) == next_size(next_size(delta).rest).size

\* C12: every object made from a delta has a payload as long as the target
\* size the delta's header declares; a delta whose instructions make a result
\* of another length is rejected and no object is stored for it.
C12_TargetSize ==
    \A k \in 1..Len(pk.made) :
        (pk.objs[k].type = RefDelta /\ pk.objs[k].base_sha \in DOMAIN objects) =>
            LET base == ReadObject(objects, pk.objs[k].base_sha).content
                made == FormatApply(base, pk.objs[k].content)
            IN  /\ pk.made[k] # <<>> =>
                       Len(ReadObject(objects, pk.made[k]).content)
                         = DeclaredTarget(pk.objs[k].content)
                /\ (made.err = "ok"
                      /\ Len(made.result) # DeclaredTarget(pk.objs[k].content)) =>
                       pk.made[k] = <<>>

\* does the walk over a delta's instructions meet the byte 0x00 where an
\* instruction starts?
RECURSIVE ZeroCmdLoop(_)
ZeroCmdLoop(d) ==
    IF d = <<>> THEN FALSE
    ELSE IF d[1] = 0 THEN TRUE
    ELSE IF d[1] >= 128
    THEN LET offset == ReadField(d, d[1], 0, 4, 0, [val |-> 0, pos |-> 1])
             size == ReadField(d, d[1], 4, 3, 0, [val |-> 0, pos |-> offset.pos])
         IN  IF size.pos > Len(d) THEN FALSE ELSE ZeroCmdLoop(From(d, size.pos))
    ELSE ZeroCmdLoop(From(d, d[1] + 1))

MeetsZeroCmd(delta) == ZeroCmdLoop(next_size(next_size(delta).rest).rest)

\* C13: a delta in which an instruction starts with the byte 0x00 makes the
\* ingestion fail, and no object is stored for that delta.
C13_ZeroCmdRejected ==
    \A k \in 1..Len(pk.made) :
        (pk.objs[k].type = RefDelta /\ MeetsZeroCmd(pk.objs[k].content)) =>
            /\ pk.made[k] = <<>>
            /\ pk.pc = "error"

\* C14: a pack with a record of type code 6 (ofs_delta) makes the ingestion
\* fail; the record is never skipped with the parse going on behind its
\* header.
C14_OfsDeltaRejected ==
    (pk.pc # "idle" /\ \E k \in 1..Len(pk.pack) : pk.pack[k].code = 6) =>
        /\ pk.pc = "error"
        /\ pk.objs = <<>>

\* the ref_deltas of a pack whose base is neither in the store nor produced
\* by the pack
Unresolved(pack, store) ==
    { k \in 1..Len(pack) :
        /\ pack[k].code = 7
        /\ \A m \in Produced(pack, store) : m.sha # pack[k].base }

\* C15: given a pack with a ref_delta whose base is neither in the store nor
\* produced by the pack, the ingestion goes through the whole pack, stores
\* every object that does not depend on the missing base, and then fails.
C15_UnresolvedAfterWholePack ==
    (pk.pc \in {"done", "error"} /\ Unresolved(pk.pack, pk.before) # {}) =>
        /\ pk.pc = "error"
        /\ \A m \in Produced(pk.pack, pk.before) : m.sha \in DOMAIN objects

\* C17: input whose first four bytes are not "PACK", or whose version is not
\* 2, is rejected, and no object is written to the store.
C17_HeaderVerified ==
    (pk.pc # "idle" /\ pk.head # GoodHead) =>
        /\ pk.pc = "error"
        /\ pk.made = <<>>
        /\ objects = pk.before

\* what does hold: a pack with the right header, of full objects only, is
\* ingested whole
FullObjectsIngested ==
    (/\ pk.pc \in {"done", "error"}
     /\ pk.head = GoodHead
     /\ \A k \in 1..Len(pk.pack) : pk.pack[k].code \in 1..4) =>
        /\ pk.pc = "done"
        /\ \A k \in 1..Len(pk.pack) :
               ReadObject(objects, pk.made[k])
                 = [err |-> "ok", kind |-> type_map(pk.pack[k].code),
                    content |-> pk.pack[k].payload]

\* the kind of the object a delta's base sha names: that of the non-delta
\* object its chain starts from
AncestorKind(sha) == (CHOOSE m \in Produced(pk.pack, pk.before) : m.sha = sha).kind

\* C18 (kind propagation): every object made from a delta is stored with the
\* kind of the non-delta object its chain of bases starts from, also when its
\* base is itself the result of a delta, and never under the delta's own
\* pack type.
C18_KindPropagation ==
    \A k \in 1..Len(pk.made) :
        (pk.objs[k].type = RefDelta /\ pk.made[k] # <<>>) =>
            /\ \E m \in Produced(pk.pack, pk.before) : m.sha = pk.objs[k].base_sha
            /\ ReadObject(objects, pk.made[k]).kind = AncestorKind(pk.objs[k].base_sha)
            /\ ReadObject(objects, pk.made[k]).kind \in {Commit, Tree, Blob, Tag}

\* a tree, a delta against it and a delta against that delta's result were
\* ingested, and the second delta's result is stored as a tree
C18_Witness ==
    /\ pk.pc = "done"
    /\ pk.pack = << Obj(2, B1), Delta(Tree, B1, ToT1), Delta(Tree, T1, ToT2) >>
    /\ ReadObject(objects, pk.made[3]) = [err |-> "ok", kind |-> Tree, content |-> T2]

(***************************************************************************)
(* Properties of clone.                                                    *)
(***************************************************************************)
\* the refs as command i of the history left them
RefsAfter(i) == IF i = Len(hist) THEN refs ELSE hist[i + 1].refs

\* the files under refs/heads
IsBranchRef(p) == Slice(p, 0, 11) = Slice(RefsHeadsMain, 0, 11)

\* C19: clone writes HEAD and the branch ref only after the whole pack is
\* ingested: a clone that fails in discovery, fetch or ingestion leaves no
\* HEAD and no file under refs/heads, and whenever a file under refs/heads
\* exists, the commit it names is in the object store.
C19_RefsAfterIngest ==
    /\ \A i \in 1..Len(hist) :
           (hist[i].op = "clone" /\ hist[i].c \in {"discovery", "fetch", "ingest"}) =>
               DOMAIN RefsAfter(i).files = {}
    /\ \A p \in DOMAIN refs.files :
           IsBranchRef(p) =>
               LET sha == Slice(refs.files[p], 0, Len(refs.files[p]) - 1)
               IN  /\ sha \in DOMAIN objects
                   /\ ReadObject(objects, sha).kind = Commit

\* what does hold: a clone that fails before or in the ingestion writes no
\* HEAD and no ref, and one that does not fail there writes both
CloneWritesRefsLast ==
    \A i \in 1..Len(hist) :
        hist[i].op = "clone" =>
            /\ hist[i].c \in {"makedirs", "discovery", "fetch", "ingest"} =>
                   RefsAfter(i).files = hist[i].refs.files
            /\ hist[i].c = "checkout" =>
                   /\ HeadPath \in DOMAIN RefsAfter(i).files
                   /\ \E p \in DOMAIN RefsAfter(i).files : IsBranchRef(p)

(***************************************************************************)
(* Properties of a repository's life.                                      *)
(***************************************************************************)
\* C11 (lifecycle): no command takes an object out of the store or changes
\* the kind or the payload stored under a sha that is there; HEAD and the
\* files under refs/ are written by init and clone only: hash-object,
\* write-tree, commit-tree, cat-file and ls-tree leave every one of them as
\* it was.
C11_Lifecycle ==
    \A i \in 1..Len(hist) :
        /\ \A h \in DOMAIN hist[i].before :
               /\ h \in DOMAIN StoreAfter(i)
               /\ ReadObject(StoreAfter(i), h) = ReadObject(hist[i].before, h)
        /\ hist[i].op \in {"hash_object", "write-tree", "commit-tree", "cat-file", "ls-tree"} =>
               RefsAfter(i).files = hist[i].refs.files
        /\ RefsAfter(i).files # hist[i].refs.files => hist[i].op \in {"init", "clone"}

\* after init, commit-tree stored a commit and hash-object a blob: the store
\* holds both objects, and HEAD is as init wrote it, with no file under refs/
C11_Witness ==
    /\ Len(hist) = 3
    /\ hist[1].op = "init" /\ hist[1].err = "ok"
    /\ hist[2].op = "commit-tree" /\ hist[2].err = "ok"
    /\ hist[3].op = "hash_object"
    /\ Cardinality(DOMAIN objects) = 2
    /\ hist[2].sha \in DOMAIN objects
    /\ refs.files = AfterInit.files

\* a clone filled the store and wrote the refs, and the write-tree run in the
\* clone left both as they were
LifeAfterClone ==
    /\ Len(hist) = 2
    /\ hist[1].op = "clone" /\ hist[1].err = "ok"
    /\ hist[2].op = "write-tree"
    /\ hist[2].sha \in DOMAIN hist[2].before
    /\ RefsHeadsMain \in DOMAIN refs.files

=============================================================================
